---------------------------- MODULE Spec2Model ----------------------------
(***************************************************************************)
(* Attendance report: the layout-recovery parser, the shift-policy rule     *)
(* engine and the per-employee report of src/bbb.py (src/vv.py shares the   *)
(* parser and the rule engine line for line), the consolidated report of    *)
(* src/vv.py, and a session of uploads served through the st.cache_data     *)
(* memo.                                                                    *)
(*                                                                          *)
(* Representation.                                                          *)
(*   - a string is a sequence of one-character strings, so that strip,      *)
(*     split and the time formats are computed, not assumed;                *)
(*   - an optional time-of-day is <<>> (Python's None) or <<s>>, s the      *)
(*     seconds since midnight;                                              *)
(*   - a datetime is the number of seconds since day 0, 00:00;              *)
(*   - a label is <<n, text>>: n is the number an f-string formats into the *)
(*     text ("2 x 15 Min Late" is <<2, " x 15 Min Late">>), 0 otherwise.    *)
(***************************************************************************)
EXTENDS Integers, Sequences, FiniteSets, TLC

VARIABLES
    df_raw,         \* the uploaded grid: a sequence of rows of cells
    df_structured,  \* restructure_attendance_data: every extracted day-slot
    df_processed,   \* restructure_attendance_data: the records it returns
    parse_outcome,  \* "none" | "ok" (a return from the try body) | "error" (the except handler ran)
    today,          \* datetime.today().date(), as a day number
    report,         \* generate_employee_report's result for report_employee
    report_employee,
    time_val,       \* rule engine: the optional time-of-day under classification
    late_status,    \* rule engine: calculate_late_status's result, or <<>>
    early_status,   \* rule engine: calculate_early_out_status's result, or <<>>
    row,            \* daily resolver: the row handed to get_day_classification
    day_class,      \* daily resolver: its result, or <<>>
    consolidated,   \* generate_consolidated_report's summary, or <<>>
    time_cell,      \* time parser: the cell handed to to_time_safe
    cache,          \* st.cache_data: the memoized results of restructure_attendance_data
    runs,           \* the uploads served so far, each with the tables shown for it
    pc

vars == <<df_raw, df_structured, df_processed, parse_outcome, today, report,
          report_employee, time_val, late_status, early_status, row, day_class,
          consolidated, time_cell, cache, runs, pc>>

-----------------------------------------------------------------------------
(* Bounds of the model *)

\* wall-clock dates run over 0..MaxDay
MaxDay == 1

-----------------------------------------------------------------------------
(* Time-of-day values *)

None == <<>>

Time(h, m) == <<h * 3600 + m * 60>>

TimeS(h, m, s) == <<h * 3600 + m * 60 + s>>

Secs(t) == t[1]

\* datetime.combine(date, t)
Combine(date, t) == date * 86400 + Secs(t)

Lit(text) == <<0, text>>

Fmt(n, text) == <<n, text>>

-----------------------------------------------------------------------------
(* 1. Configuration *)

SHIFT_START == Time(9, 15)

SHIFT_END == Time(17, 45)

LATE_UNIT_MINUTES == 15

HALF_DAY_START_TIME_NEW == Time(10, 16)

HALF_DAY_END_TIME_NEW == Time(13, 30)

EVENING_HALF_DAY_TIME == Time(16, 45)

ONE_HOUR_LEAVE_START_TIME == Time(16, 46)

ONE_HOUR_LEAVE_END_TIME == Time(17, 44)

-----------------------------------------------------------------------------
(* 2. Core calculation functions *)

\* math.ceil(a / b) for an integer a and b > 0
CeilDiv(a, b) == IF a % b = 0 THEN a \div b ELSE (a \div b) + 1

\* The half-day window compared with strict bounds.
CalculateLateStatus_StrictWindow(in_time, date) ==
    IF in_time = None THEN <<0, Lit("Missing IN Time"), 0>>
    ELSE LET shift_start_dt == Combine(date, SHIFT_START)
             in_time_dt == Combine(date, in_time)
             half_day_start_dt_new == Combine(date, HALF_DAY_START_TIME_NEW)
             half_day_end_dt_new == Combine(date, HALF_DAY_END_TIME_NEW)
             late_seconds == in_time_dt - shift_start_dt
             late_units == CeilDiv(late_seconds, LATE_UNIT_MINUTES * 60)
         IN  IF in_time_dt > half_day_start_dt_new /\ in_time_dt < half_day_end_dt_new
             THEN <<0, Lit("Half Day Leave (Morning IN)"), 1>>
             ELSE IF late_seconds <= 0 THEN <<0, Lit("On Time"), 0>>
             ELSE <<late_units, Fmt(late_units, " x 15 Min Late"), 0>>

\* The late units are computed first and returned with the half-day flag.
CalculateLateStatus_LateInWindow(in_time, date) ==
    IF in_time = None THEN <<0, Lit("Missing IN Time"), 0>>
    ELSE LET shift_start_dt == Combine(date, SHIFT_START)
             in_time_dt == Combine(date, in_time)
             half_day_start_dt_new == Combine(date, HALF_DAY_START_TIME_NEW)
             half_day_end_dt_new == Combine(date, HALF_DAY_END_TIME_NEW)
             late_seconds == in_time_dt - shift_start_dt
             late_units == CeilDiv(late_seconds, LATE_UNIT_MINUTES * 60)
         IN  IF in_time_dt >= half_day_start_dt_new /\ in_time_dt <= half_day_end_dt_new
             THEN <<late_units, Lit("Half Day Leave (Morning IN)"), 1>>
             ELSE IF late_seconds <= 0 THEN <<0, Lit("On Time"), 0>>
             ELSE <<late_units, Fmt(late_units, " x 15 Min Late"), 0>>

\* calculate_late_status: <<late_units, label, is_morning_half_day>>.
\* late_minutes is a float, total_seconds() / 60; it is <= 0 exactly when the
\* difference in seconds is, and ceil(late_minutes / 15) is the ceiling of
\* seconds / 900: a quotient that is no integer is at least 1/900 away from one.
CalculateLateStatus(in_time, date) ==
    IF in_time = None THEN <<0, Lit("Missing IN Time"), 0>>
    ELSE LET shift_start_dt == Combine(date, SHIFT_START)
             in_time_dt == Combine(date, in_time)
             half_day_start_dt_new == Combine(date, HALF_DAY_START_TIME_NEW)
             half_day_end_dt_new == Combine(date, HALF_DAY_END_TIME_NEW)
             late_seconds == in_time_dt - shift_start_dt
             late_units == CeilDiv(late_seconds, LATE_UNIT_MINUTES * 60)
         IN  IF in_time_dt >= half_day_start_dt_new /\ in_time_dt <= half_day_end_dt_new
             THEN <<0, Lit("Half Day Leave (Morning IN)"), 1>>
             ELSE IF late_seconds <= 0 THEN <<0, Lit("On Time"), 0>>
             ELSE <<late_units, Fmt(late_units, " x 15 Min Late"), 0>>

\* The evening half-day compared with a strict bound.
CalculateEarlyOutStatus_StrictEvening(out_time, date) ==
    IF out_time = None THEN <<0, Lit("Missing OUT Time"), 0>>
    ELSE LET shift_end_dt == Combine(date, SHIFT_END)
             out_time_dt == Combine(date, out_time)
             early_out_seconds == shift_end_dt - out_time_dt
             one_hour_leave_start_dt == Combine(date, ONE_HOUR_LEAVE_START_TIME)
             one_hour_leave_end_dt == Combine(date, ONE_HOUR_LEAVE_END_TIME)
             evening_half_day_dt == Combine(date, EVENING_HALF_DAY_TIME)
         IN  IF early_out_seconds <= 0 THEN <<0, Lit("On Time/Overtime"), 0>>
             ELSE IF out_time_dt >= one_hour_leave_start_dt
                     /\ out_time_dt <= one_hour_leave_end_dt
             THEN <<1, Lit("1 Hour Leave"), 0>>
             ELSE IF out_time_dt < evening_half_day_dt
             THEN <<0, Lit("Half Day Leave (Evening OUT)"), 1>>
             ELSE <<0, Lit("Other Early Out"), 0>>

\* calculate_early_out_status: <<early_out_units, label, is_evening_half_day>>
CalculateEarlyOutStatus(out_time, date) ==
    IF out_time = None THEN <<0, Lit("Missing OUT Time"), 0>>
    ELSE LET shift_end_dt == Combine(date, SHIFT_END)
             out_time_dt == Combine(date, out_time)
             early_out_seconds == shift_end_dt - out_time_dt
             one_hour_leave_start_dt == Combine(date, ONE_HOUR_LEAVE_START_TIME)
             one_hour_leave_end_dt == Combine(date, ONE_HOUR_LEAVE_END_TIME)
             evening_half_day_dt == Combine(date, EVENING_HALF_DAY_TIME)
         IN  IF early_out_seconds <= 0 THEN <<0, Lit("On Time/Overtime"), 0>>
             ELSE IF out_time_dt >= one_hour_leave_start_dt
                     /\ out_time_dt <= one_hour_leave_end_dt
             THEN <<1, Lit("1 Hour Leave"), 0>>
             ELSE IF out_time_dt <= evening_half_day_dt
             THEN <<0, Lit("Half Day Leave (Evening OUT)"), 1>>
             ELSE <<0, Lit("Other Early Out"), 0>>

\* Priority 3 tested before priority 2.
GetDayClassification_LeaveFirst(r) ==
    LET is_m_half == r.is_morning_half_day
        is_e_half == r.is_evening_half_day
        is_1hr_leave == (r.early_out_units = 1)
        late_units == r.late_units
    IN  IF is_m_half # 0 /\ is_e_half # 0 THEN Lit("FULL Day Leave (Morn + Even Half)")
        ELSE IF is_1hr_leave THEN Lit("1 Hour Leave (Early OUT)")
        ELSE IF is_m_half # 0 THEN Lit("Half Day Leave (Morning IN)")
        ELSE IF is_e_half # 0 THEN Lit("Half Day Leave (Evening OUT)")
        ELSE IF late_units > 0 THEN Fmt(late_units, " x 15 Min Late")
        ELSE IF r.time_in = None \/ r.time_out = None THEN Lit("Incomplete Record")
        ELSE Lit("On Time")

\* get_day_classification: the flags are 0/1 integers, tested for truth
GetDayClassification(r) ==
    LET is_m_half == r.is_morning_half_day
        is_e_half == r.is_evening_half_day
        is_1hr_leave == (r.early_out_units = 1)
        late_units == r.late_units
    IN  IF is_m_half # 0 /\ is_e_half # 0 THEN Lit("FULL Day Leave (Morn + Even Half)")
        ELSE IF is_m_half # 0 THEN Lit("Half Day Leave (Morning IN)")
        ELSE IF is_e_half # 0 THEN Lit("Half Day Leave (Evening OUT)")
        ELSE IF is_1hr_leave THEN Lit("1 Hour Leave (Early OUT)")
        ELSE IF late_units > 0 THEN Fmt(late_units, " x 15 Min Late")
        ELSE IF r.time_in = None \/ r.time_out = None THEN Lit("Incomplete Record")
        ELSE Lit("On Time")

-----------------------------------------------------------------------------
(* Strings *)

Whitespace == {" ", "\t", "\n", "\r"}

DigitChars == <<"0", "1", "2", "3", "4", "5", "6", "7", "8", "9">>

IsDigit(c) == \E i \in 1..Len(DigitChars) : DigitChars[i] = c

DigitVal(c) == (CHOOSE i \in 1..Len(DigitChars) : DigitChars[i] = c) - 1

RECURSIVE LStrip(_)
LStrip(s) == IF s # <<>> /\ Head(s) \in Whitespace THEN LStrip(Tail(s)) ELSE s

RECURSIVE RStrip(_)
RStrip(s) ==
    IF s # <<>> /\ s[Len(s)] \in Whitespace THEN RStrip(SubSeq(s, 1, Len(s) - 1)) ELSE s

\* str.strip()
Strip(s) == RStrip(LStrip(s))

\* str.split(sep) for a one-character sep: the segments between its occurrences
RECURSIVE Split(_, _)
Split(s, sep) ==
    IF \A i \in 1..Len(s) : s[i] # sep THEN <<s>>
    ELSE LET k == CHOOSE i \in 1..Len(s) :
                      s[i] = sep /\ \A j \in 1..(i - 1) : s[j] # sep
         IN  <<SubSeq(s, 1, k - 1)>> \o Split(SubSeq(s, k + 1, Len(s)), sep)

\* re: '^prefix'
StartsWith(s, prefix) ==
    Len(s) >= Len(prefix) /\ SubSeq(s, 1, Len(prefix)) = prefix

AllDigits(s) == \A i \in 1..Len(s) : IsDigit(s[i])

RECURSIVE Num(_)
Num(s) == IF s = <<>> THEN 0 ELSE Num(SubSeq(s, 1, Len(s) - 1)) * 10 + DigitVal(s[Len(s)])

\* a field of one or two digits whose value is at most max
IsField(f, max) == Len(f) \in {1, 2} /\ AllDigits(f) /\ Num(f) <= max

Str_Employee == <<"E", "m", "p", "l", "o", "y", "e", "e", ":">>

Str_Days == <<"D", "a", "y", "s">>

Str_P == <<"P">>

Str_0000 == <<"0", "0", ":", "0", "0">>

Str_nan == <<"n", "a", "n">>

Str_NaT == <<"N", "a", "T">>

-----------------------------------------------------------------------------
(* TimeParser *)

\* datetime.strptime(s, "%H:%M") succeeds: %H is 2[0-3]|[0-1]\d|\d, %M is
\* [0-5]\d|\d, and no character may remain
MatchesHM(s) ==
    LET f == Split(s, ":")
    IN  Len(f) = 2 /\ IsField(f[1], 23) /\ IsField(f[2], 59)

StrpTimeHM(s) == LET f == Split(s, ":") IN Time(Num(f[1]), Num(f[2]))

\* The fallback keeping hours and minutes only.
ToDatetimeTime_WholeMinute(s) ==
    LET f == Split(s, ":")
    IN  IF Len(f) = 3 /\ IsField(f[1], 23) /\ IsField(f[2], 59) /\ IsField(f[3], 59)
        THEN Time(Num(f[1]), Num(f[2]))
        ELSE None

\* pd.to_datetime(s, errors='coerce') followed by .time(): a clock string with
\* seconds parses to today's date at that time; the strings of this model that
\* are no clock string give NaT, returned here as None
ToDatetimeTime(s) ==
    LET f == Split(s, ":")
    IN  IF Len(f) = 3 /\ IsField(f[1], 23) /\ IsField(f[2], 59) /\ IsField(f[3], 59)
        THEN TimeS(Num(f[1]), Num(f[2]), Num(f[3]))
        ELSE None

\* to_time_safe
ToTimeSafe(cell) ==
    LET s == Strip(cell)
    IN  IF s = <<>> \/ s \in {Str_0000, Str_nan, Str_NaT} THEN None
        ELSE IF MatchesHM(s) THEN StrpTimeHM(s)
        ELSE ToDatetimeTime(s)

-----------------------------------------------------------------------------
(* 3. BlockExtractor: restructure_attendance_data.  Rows and columns are    *)
(* numbered from 0, as pandas numbers them.                                *)

TIME_START_COL_INDEX == 2

NumRows(g) == Len(g)

\* df_raw.iloc[r, c]
Iloc(g, r, c) == g[r + 1][c + 1]

\* df_raw.iloc[r, c:] raises IndexError for a row past the end
RowInRange(g, r) == r >= 0 /\ r < NumRows(g)

\* df_raw.iloc[r, c:].values
IlocFrom(g, r, c) == SubSeq(g[r + 1], c + 1, Len(g[r + 1]))

\* df_raw[0] after .astype(str).str.strip()
Col0(g, r) == Strip(Iloc(g, r, 0))

StripAll(cells) == [i \in 1..Len(cells) |-> Strip(cells[i])]

SetMax(S) == CHOOSE x \in S : \A y \in S : y <= x

SetMin(S) == CHOOSE x \in S : \A y \in S : x <= y

\* the ascending sequence of the members of a finite set of integers
RECURSIVE Ascending(_)
Ascending(S) == IF S = {} THEN <<>> ELSE <<SetMin(S)>> \o Ascending(S \ {SetMin(S)})

\* rows whose tag matches '^Employee:'
EmpRows(g) == Ascending({r \in 0..(NumRows(g) - 1) : StartsWith(Col0(g, r), Str_Employee)})

\* rows whose tag matches '^Days$'
DaysRowSet(g) == {r \in 0..(NumRows(g) - 1) : Col0(g, r) = Str_Days}

\* Index.max(): the largest label, NaN for an empty index (never None)
IndexMax(S) ==
    IF S = {} THEN [kind |-> "nan", v |-> 0] ELSE [kind |-> "int", v |-> SetMax(S)]

\* The first matching row instead of the last.
DaysRowIndex_First(g) ==
    IF DaysRowSet(g) = {} THEN [kind |-> "nan", v |-> 0]
    ELSE [kind |-> "int", v |-> SetMin(DaysRowSet(g))]

DaysRowIndex(g) == IndexMax(DaysRowSet(g))

\* str(x).split(':')[-1].strip()
EmployeeName(employee_str) ==
    LET parts == Split(employee_str, ":") IN Strip(parts[Len(parts)])

\* min(...) of the four lengths
MinLen(a, b, c, d) == SetMin({a, b, c, d})

\* The day-slots of one employee block (temp_df), empty when the block is
\* skipped.  anchor and slot record where a row came from; the code keeps no
\* such columns.
TempDf(g, emp_row_index, day_headers_list_full) ==
    LET employee_str == Iloc(g, emp_row_index, 3)
        status_row_index == emp_row_index + 1
        intime_row_index == emp_row_index + 2
        outtime_row_index == emp_row_index + 3
    IN  IF Strip(employee_str) = <<>> THEN <<>>
        ELSE IF ~RowInRange(g, status_row_index)
                \/ ~RowInRange(g, intime_row_index)
                \/ ~RowInRange(g, outtime_row_index) THEN <<>>
        ELSE LET status_data == StripAll(IlocFrom(g, status_row_index, TIME_START_COL_INDEX))
                 intime_data == StripAll(IlocFrom(g, intime_row_index, TIME_START_COL_INDEX))
                 outtime_data == StripAll(IlocFrom(g, outtime_row_index, TIME_START_COL_INDEX))
                 min_len == MinLen(Len(day_headers_list_full), Len(status_data),
                                   Len(intime_data), Len(outtime_data))
             IN  [i \in 1..min_len |->
                    [anchor |-> emp_row_index,
                     slot |-> i - 1,
                     Employee_Raw |-> employee_str,
                     Day |-> day_headers_list_full[i],
                     Status |-> status_data[i],
                     InTime_Raw |-> intime_data[i],
                     OutTime_Raw |-> outtime_data[i],
                     Employee_Name |-> EmployeeName(employee_str),
                     Time_In |-> ToTimeSafe(intime_data[i]),
                     Time_Out |-> ToTimeSafe(outtime_data[i])]]

\* The loop stops at the first block it skips.
RECURSIVE FinalData_StopAtSkip(_, _, _)
FinalData_StopAtSkip(g, emp_rows, day_headers_list_full) ==
    IF emp_rows = <<>> THEN <<>>
    ELSE LET temp_df == TempDf(g, Head(emp_rows), day_headers_list_full)
         IN  IF temp_df = <<>> THEN <<>>
             ELSE temp_df \o FinalData_StopAtSkip(g, Tail(emp_rows), day_headers_list_full)

\* the loop over emp_rows, and pd.concat(final_data, ignore_index=True)
RECURSIVE FinalData(_, _, _)
FinalData(g, emp_rows, day_headers_list_full) ==
    IF emp_rows = <<>> THEN <<>>
    ELSE TempDf(g, Head(emp_rows), day_headers_list_full)
         \o FinalData(g, Tail(emp_rows), day_headers_list_full)

\* The filter on the times is left out.
Keep_StatusOnly(rec) == rec.Status = Str_P

\* df_clean's two filters: Status == 'P', and Time In or Time Out not NA
Keep(rec) == rec.Status = Str_P /\ (rec.Time_In # None \/ rec.Time_Out # None)

\* df_clean[['Employee Name', 'Date/Day', 'Time In', 'Time Out']]: the rows
\* kept, under the index labels they have in df_structured
RECURSIVE Clean(_, _)
Clean(structured, i) ==
    IF i > Len(structured) THEN <<>>
    ELSE (IF Keep(structured[i])
          THEN <<[idx |-> i - 1,
                  Employee_Name |-> structured[i].Employee_Name,
                  Day |-> structured[i].Day,
                  Time_In |-> structured[i].Time_In,
                  Time_Out |-> structured[i].Time_Out]>>
          ELSE <<>>) \o Clean(structured, i + 1)

\* restructure_attendance_data: what it returns (processed), the frame it
\* filters (structured) and how it ended
RestructureAttendanceData(g) ==
    LET emp_rows == EmpRows(g)
        days_row_index == DaysRowIndex(g)
        empty == [structured |-> <<>>, processed |-> <<>>]
    IN  IF days_row_index.kind = "None" THEN [outcome |-> "ok"] @@ empty
        ELSE IF days_row_index.kind # "int"
        THEN \* df_raw.iloc[nan, 2:] raises; the handler reports it
             [outcome |-> "error"] @@ empty
        ELSE LET day_headers_list_full ==
                     StripAll(IlocFrom(g, days_row_index.v, TIME_START_COL_INDEX))
                 final_data == FinalData(g, emp_rows, day_headers_list_full)
             IN  [outcome |-> "ok",
                  structured |-> final_data,
                  processed |-> Clean(final_data, 1)]

-----------------------------------------------------------------------------
(* 4. ReportAggregator: generate_employee_report *)

RECURSIVE SumSeq(_)
SumSeq(s) == IF s = <<>> THEN 0 ELSE Head(s) + SumSeq(Tail(s))

Column(df, f) == [i \in 1..Len(df) |-> df[i][f]]

\* one row of employee_data after the three apply calls
Calculated(rec, date) ==
    LET late == IF rec.Time_In # None THEN CalculateLateStatus(rec.Time_In, date)
                ELSE <<0, Lit("Missing IN Time"), 0>>
        early == IF rec.Time_Out # None THEN CalculateEarlyOutStatus(rec.Time_Out, date)
                 ELSE <<0, Lit("Missing OUT Time"), 0>>
        fields == [late_units |-> late[1],
                   late_classification |-> late[2],
                   is_morning_half_day |-> late[3],
                   early_out_units |-> early[1],
                   early_out_classification |-> early[2],
                   is_evening_half_day |-> early[3]]
    IN  rec @@ fields @@
        [Day_Classification |->
            GetDayClassification(fields @@ [time_in |-> rec.Time_In, time_out |-> rec.Time_Out])]

\* A day with both half-day flags counts once.
TotalHalfDayIncidents_Capped(employee_data) ==
    SumSeq([i \in 1..Len(employee_data) |->
              IF employee_data[i].is_morning_half_day = 1
                 \/ employee_data[i].is_evening_half_day = 1 THEN 1 ELSE 0])

TotalHalfDayIncidents(employee_data) ==
    SumSeq(Column(employee_data, "is_morning_half_day"))
    + SumSeq(Column(employee_data, "is_evening_half_day"))

TotalLateUnits(employee_data) == SumSeq(Column(employee_data, "late_units"))

Total1HrLeaves(employee_data) ==
    SumSeq([i \in 1..Len(employee_data) |->
              IF employee_data[i].early_out_units = 1 THEN 1 ELSE 0])

\* generate_employee_report; employee_data is the local frame the two tables
\* are cut from
GenerateEmployeeReportResult(df, employee_name, date) ==
    LET selected == SelectSeq(df, LAMBDA rec : rec.Employee_Name = employee_name)
        employee_data == [i \in 1..Len(selected) |-> Calculated(selected[i], date)]
    IN  IF selected = <<>>
        THEN [found |-> FALSE, summary |-> <<>>, details |-> <<>>, employee_data |-> <<>>]
        ELSE [found |-> TRUE,
              summary |-> << <<"Total 15 Min Late Units", TotalLateUnits(employee_data)>>,
                             <<"Total Half Day Incidents", TotalHalfDayIncidents(employee_data)>>,
                             <<"Total 1 Hour Leaves", Total1HrLeaves(employee_data)>> >>,
              details |-> [i \in 1..Len(employee_data) |->
                             [Employee_Name |-> employee_data[i].Employee_Name,
                              Day |-> employee_data[i].Day,
                              Time_In |-> employee_data[i].Time_In,
                              Time_Out |-> employee_data[i].Time_Out,
                              Day_Classification |-> employee_data[i].Day_Classification]],
              employee_data |-> employee_data]

-----------------------------------------------------------------------------
(* 4b. ReportAggregator: generate_consolidated_report (src/vv.py) *)

\* the characters in code-point order, as sorting compares them
CharOrder ==
    <<" ", "0", "1", "2", "3", "4", "5", "6", "7", "8", "9", ":",
      "A", "B", "C", "D", "E", "F", "G", "H", "I", "J", "K", "L", "M",
      "N", "O", "P", "Q", "R", "S", "T", "U", "V", "W", "X", "Y", "Z",
      "a", "b", "c", "d", "e", "f", "g", "h", "i", "j", "k", "l", "m",
      "n", "o", "p", "q", "r", "s", "t", "u", "v", "w", "x", "y", "z">>

CharCode(c) == CHOOSE i \in 1..Len(CharOrder) : CharOrder[i] = c

\* a < b for two strings
RECURSIVE StrLess(_, _)
StrLess(a, b) ==
    IF b = <<>> THEN FALSE
    ELSE IF a = <<>> THEN TRUE
    ELSE IF Head(a) = Head(b) THEN StrLess(Tail(a), Tail(b))
    ELSE CharCode(Head(a)) < CharCode(Head(b))

\* the members of a set of strings, sorted
RECURSIVE SortedStrings(_)
SortedStrings(S) ==
    IF S = {} THEN <<>>
    ELSE LET least == CHOOSE a \in S : \A b \in S \ {a} : StrLess(a, b)
         IN  <<least>> \o SortedStrings(S \ {least})

\* np.where((is_morning_half_day == 1) | (is_evening_half_day == 1), 1, 0)
IsHalfDay(r) ==
    IF r.is_morning_half_day = 1 \/ r.is_evening_half_day = 1 THEN 1 ELSE 0

\* Every early out of one unit counts, a half day or not.
IsOneHourLeave_AnyDay(r) == IF r.early_out_units = 1 THEN 1 ELSE 0

\* np.where((is_half_day == 0) & (early_out_units == 1), 1, 0)
IsOneHourLeave(r) == IF IsHalfDay(r) = 0 /\ r.early_out_units = 1 THEN 1 ELSE 0

\* one row of df_calculated
CalculatedFlags(rec, date) ==
    LET late == IF rec.Time_In # None THEN CalculateLateStatus(rec.Time_In, date)
                ELSE <<0, Lit("Missing IN Time"), 0>>
        early == IF rec.Time_Out # None THEN CalculateEarlyOutStatus(rec.Time_Out, date)
                 ELSE <<0, Lit("Missing OUT Time"), 0>>
        fields == [late_units |-> late[1],
                   late_classification |-> late[2],
                   is_morning_half_day |-> late[3],
                   early_out_units |-> early[1],
                   early_out_classification |-> early[2],
                   is_evening_half_day |-> early[3]]
    IN  rec @@ fields @@
        [is_half_day |-> IsHalfDay(fields), is_one_hour_leave |-> IsOneHourLeave(fields)]

\* groupby('Employee Name').agg(sum ...).reset_index(): one row per name, in
\* the order of the sorted names
GenerateConsolidatedReportResult(df, date) ==
    IF df = <<>> THEN [summary |-> <<>>, df_calculated |-> <<>>]
    ELSE LET df_calculated == [i \in 1..Len(df) |-> CalculatedFlags(df[i], date)]
             keys == SortedStrings({df[i].Employee_Name : i \in 1..Len(df)})
             group(name) == SelectSeq(df_calculated, LAMBDA r : r.Employee_Name = name)
         IN  [summary |->
                [k \in 1..Len(keys) |->
                    [Employee_Name |-> keys[k],
                     Late_Units_15_Min |-> SumSeq(Column(group(keys[k]), "late_units")),
                     Half_Day_Incidents |-> SumSeq(Column(group(keys[k]), "is_half_day")),
                     One_Hour_Leaves |-> SumSeq(Column(group(keys[k]), "is_one_hour_leave"))]],
              df_calculated |-> df_calculated]

-----------------------------------------------------------------------------
(* Inputs *)

\* day columns of an uploaded grid (columns 2, 3, ...)
NumDayCols == 2

\* an uploaded grid is made of at most MaxSections sections: header rows and
\* employee blocks
MaxSections == 3

\* get_day_classification is tried on late_units in 0..MaxLateUnits
MaxLateUnits == 3

\* generate_employee_report is tried on frames of at most MaxRecords rows
MaxRecords == 2

\* uploads in one session
MaxUploads == 3

Str_Empty == <<>>

\* <<status, time in, time out>> cells of a day; a block's day columns show
\* consecutive entries, so no two columns of a block agree
SlotSeq ==
    << <<Str_P, <<"0", "9", ":", "3", "0">>, <<"1", "7", ":", "4", "5">> >>,
       << <<"P", " ">>, Str_Empty, <<"1", "6", ":", "4", "5", ":", "3", "0">> >>,
       << <<"A">>, <<"9", ":", "5">>, <<"1", "8", ":", "0", "0">> >>,
       << Str_P, Str_nan, Str_0000 >> >>

DataRow(tag, k, field) ==
    <<tag, Str_Empty>>
    \o [i \in 1..NumDayCols |-> SlotSeq[((k + i - 1) % Len(SlotSeq)) + 1][field]]

\* the name is in column 3; the other cells of an anchor row are blank
AnchorRow(name) ==
    <<Str_Employee, Str_Empty, Str_Empty, name>> \o [i \in 1..(NumDayCols - 2) |-> Str_Empty]

Block(name, k) ==
    <<AnchorRow(name), DataRow(<<"S">>, k, 1), DataRow(<<"I">>, k, 2), DataRow(<<"O">>, k, 3)>>

\* a header row: v = 1 is tagged "Days" and labelled "d1 ", "d2 ", ...;
\* v = 2 is tagged " Days " and labelled "e1", "e2", ...
DaysRow(v) ==
    <<IF v = 1 THEN Str_Days ELSE <<" ">> \o Str_Days \o <<" ">>, Str_Empty>>
    \o [i \in 1..NumDayCols |->
          IF v = 1 THEN <<"d", DigitChars[i + 1], " ">> ELSE <<"e", DigitChars[i + 1]>>]

Name_Al == <<"E", ":", "A", "l">>

Name_Bo == <<"E", ":", " ", "B", "o", " ">>

Name_Blank == <<"E", ":">>

\* whole blocks, two blocks cut short, and the header rows
SectionVocab ==
    {Block(Name_Al, 0), Block(Name_Al, 2), Block(Name_Bo, 1),
     Block(Name_Blank, 0), Block(Str_Empty, 1)}
    \cup {SubSeq(Block(Name_Al, 0), 1, 2), SubSeq(Block(Name_Bo, 1), 1, 3)}
    \cup {<<DaysRow(1)>>, <<DaysRow(2)>>}

RECURSIVE GridsOf(_)
GridsOf(n) ==
    IF n = 0 THEN {<<>>}
    ELSE LET shorter == GridsOf(n - 1)
         IN  shorter \cup {g \o sec : g \in shorter, sec \in SectionVocab}

Grids == GridsOf(MaxSections) \ {<<>>}

\* the times of day the rule engine is tried on: every minute of the day,
\* every second around the window edges, and no time
RuleTimes ==
    {<<60 * m>> : m \in 0..1439}
    \cup {<<sec>> : sec \in (Secs(SHIFT_START) - 60)..(Secs(SHIFT_START) + 60)}
    \cup {<<sec>> : sec \in (Secs(HALF_DAY_START_TIME_NEW) - 60)..(Secs(HALF_DAY_START_TIME_NEW) + 60)}
    \cup {<<sec>> : sec \in (Secs(HALF_DAY_END_TIME_NEW) - 60)..(Secs(HALF_DAY_END_TIME_NEW) + 60)}
    \cup {<<sec>> : sec \in (Secs(EVENING_HALF_DAY_TIME) - 60)..(Secs(ONE_HOUR_LEAVE_START_TIME) + 60)}
    \cup {<<sec>> : sec \in (Secs(ONE_HOUR_LEAVE_END_TIME) - 60)..(Secs(SHIFT_END) + 60)}
    \cup {None}

\* rows for get_day_classification: every combination of the flags, of
\* late_units and of the presence of the two times
LadderRows ==
    [is_morning_half_day : {0, 1},
     is_evening_half_day : {0, 1},
     early_out_units : {0, 1},
     late_units : 0..MaxLateUnits,
     time_in : {None, Time(9, 0)},
     time_out : {None, Time(18, 0)}]

ReportNames == {<<"A", "l">>, <<"B", "o">>}

ReportTimesIn == {None, Time(9, 31), Time(10, 16), Time(14, 0)}

ReportTimesOut == {None, Time(16, 45), Time(17, 0), Time(18, 0)}

\* a row restructure_attendance_data can return: it has a time
ReportRows ==
    {r \in [Employee_Name : ReportNames, Day : {<<"d", "1">>},
            Time_In : ReportTimesIn, Time_Out : ReportTimesOut] :
        r.Time_In # None \/ r.Time_Out # None}

RECURSIVE FramesOf(_)
FramesOf(n) ==
    IF n = 0 THEN {<<>>}
    ELSE LET shorter == FramesOf(n - 1)
         IN  shorter \cup {Append(f, r @@ [idx |-> Len(f)]) : f \in shorter, r \in ReportRows}

Frames == FramesOf(MaxRecords) \ {<<>>}

-----------------------------------------------------------------------------
(* The application: one upload is read, restructured and reported *)

\* the text of a clock cell
TwoDigits(n) == <<DigitChars[(n \div 10) + 1], DigitChars[(n % 10) + 1]>>

ClockHM(h, m) == TwoDigits(h) \o <<":">> \o TwoDigits(m)

ClockHMS(h, m, sec) == ClockHM(h, m) \o <<":">> \o TwoDigits(sec)

\* OutTime cells: every minute of the day as HH:MM, some of them unpadded or
\* padded with blanks, the minutes around the evening boundaries with
\* seconds, and cells that are no time
OutCells ==
    {ClockHM(h, m) : h \in 0..23, m \in 0..59}
    \cup {<<DigitChars[h + 1], ":">> \o TwoDigits(m) : h \in {8, 9}, m \in {0, 15, 45}}
    \cup {<<" ">> \o ClockHM(16, m) \o <<" ">> : m \in {45, 46}}
    \cup {ClockHMS(16, m, sec) : m \in 44..46, sec \in 0..59}
    \cup {ClockHMS(17, m, sec) : m \in 44..45, sec \in {0, 30, 59}}
    \cup {ClockHM(24, 0), ClockHMS(16, 45, 60), Str_Empty, Str_nan, Str_NaT, Str_P}

Init ==
    /\ df_raw = <<>>
    /\ df_structured = <<>>
    /\ df_processed = <<>>
    /\ parse_outcome = "none"
    /\ today = 0
    /\ report = <<>>
    /\ report_employee = <<>>
    /\ time_val = None
    /\ late_status = <<>>
    /\ early_status = <<>>
    /\ row = <<>>
    /\ day_class = <<>>
    /\ consolidated = <<>>
    /\ time_cell = <<>>
    /\ cache = {}
    /\ runs = <<>>
    /\ pc = "idle"

\* app(): the uploaded file is read into df_raw
Upload(g) ==
    /\ pc = "idle"
    /\ df_raw' = g
    /\ pc' = "uploaded"
    /\ UNCHANGED <<consolidated, time_cell, cache, runs,
                   df_structured, df_processed, parse_outcome, today, report,
                   report_employee, time_val, late_status, early_status, row, day_class>>

\* app(): df_processed = restructure_attendance_data(df_raw.copy())
Restructure ==
    /\ pc = "uploaded"
    /\ LET res == RestructureAttendanceData(df_raw)
       IN  /\ df_structured' = res.structured
           /\ df_processed' = res.processed
           /\ parse_outcome' = res.outcome
    /\ pc' = "parsed"
    /\ UNCHANGED <<consolidated, time_cell, cache, runs,
                   df_raw, today, report, report_employee, time_val, late_status,
                   early_status, row, day_class>>

\* the names app() loops over: df_processed['Employee Name'].unique()
EmployeeList(df) == {df[i].Employee_Name : i \in 1..Len(df)}

\* app(): generate_employee_report(df_processed, employee), on the day d it
\* runs
GenerateEmployeeReport(employee, d) ==
    /\ pc = "parsed"
    /\ employee \in EmployeeList(df_processed)
    /\ today' = d
    /\ report_employee' = employee
    /\ report' = GenerateEmployeeReportResult(df_processed, employee, d)
    /\ UNCHANGED <<consolidated, time_cell, cache, runs,
                   df_raw, df_structured, df_processed, parse_outcome, time_val,
                   late_status, early_status, row, day_class, pc>>

Next ==
    \/ \E g \in Grids : Upload(g)
    \/ Restructure
    \/ \E employee \in EmployeeList(df_processed), d \in 0..MaxDay :
           GenerateEmployeeReport(employee, d)

Spec == Init /\ [][Next]_vars

-----------------------------------------------------------------------------
(* The rule engine on its own: one time of day, classified as a time in and *)
(* as a time out                                                            *)

InitRule ==
    /\ time_val \in RuleTimes
    /\ today \in 0..MaxDay
    /\ late_status = <<>>
    /\ early_status = <<>>
    /\ df_raw = <<>>
    /\ df_structured = <<>>
    /\ df_processed = <<>>
    /\ parse_outcome = "none"
    /\ report = <<>>
    /\ report_employee = <<>>
    /\ row = <<>>
    /\ day_class = <<>>
    /\ consolidated = <<>>
    /\ time_cell = <<>>
    /\ cache = {}
    /\ runs = <<>>
    /\ pc = "rule"

CalculateLate ==
    /\ pc = "rule"
    /\ late_status = <<>>
    /\ late_status' = CalculateLateStatus(time_val, today)
    /\ UNCHANGED <<consolidated, time_cell, cache, runs,
                   df_raw, df_structured, df_processed, parse_outcome, today, report,
                   report_employee, time_val, early_status, row, day_class, pc>>

CalculateEarlyOut ==
    /\ pc = "rule"
    /\ early_status = <<>>
    /\ early_status' = CalculateEarlyOutStatus(time_val, today)
    /\ UNCHANGED <<consolidated, time_cell, cache, runs,
                   df_raw, df_structured, df_processed, parse_outcome, today, report,
                   report_employee, time_val, late_status, row, day_class, pc>>

NextRule == CalculateLate \/ CalculateEarlyOut

SpecRule == InitRule /\ [][NextRule]_vars

-----------------------------------------------------------------------------
(* The daily resolver on its own *)

InitLadder ==
    /\ row \in LadderRows
    /\ day_class = <<>>
    /\ df_raw = <<>>
    /\ df_structured = <<>>
    /\ df_processed = <<>>
    /\ parse_outcome = "none"
    /\ today = 0
    /\ report = <<>>
    /\ report_employee = <<>>
    /\ time_val = None
    /\ late_status = <<>>
    /\ early_status = <<>>
    /\ consolidated = <<>>
    /\ time_cell = <<>>
    /\ cache = {}
    /\ runs = <<>>
    /\ pc = "ladder"

Classify ==
    /\ pc = "ladder"
    /\ day_class = <<>>
    /\ day_class' = GetDayClassification(row)
    /\ UNCHANGED <<consolidated, time_cell, cache, runs,
                   df_raw, df_structured, df_processed, parse_outcome, today, report,
                   report_employee, time_val, late_status, early_status, row, pc>>

NextLadder == Classify

SpecLadder == InitLadder /\ [][NextLadder]_vars

-----------------------------------------------------------------------------
(* The report on its own: any frame restructure_attendance_data can return *)

InitReport ==
    /\ df_processed \in Frames
    /\ df_raw = <<>>
    /\ df_structured = <<>>
    /\ parse_outcome = "ok"
    /\ today = 0
    /\ report = <<>>
    /\ report_employee = <<>>
    /\ time_val = None
    /\ late_status = <<>>
    /\ early_status = <<>>
    /\ row = <<>>
    /\ day_class = <<>>
    /\ consolidated = <<>>
    /\ time_cell = <<>>
    /\ cache = {}
    /\ runs = <<>>
    /\ pc = "parsed"

\* app() of src/vv.py: generate_consolidated_report(df_processed), on the day
\* d it runs; app() returns before it for an empty frame
GenerateConsolidatedReport(d) ==
    /\ pc = "parsed"
    /\ df_processed # <<>>
    /\ today' = d
    /\ consolidated' = GenerateConsolidatedReportResult(df_processed, d).summary
    /\ UNCHANGED <<df_raw, df_structured, df_processed, parse_outcome, report,
                   report_employee, time_val, late_status, early_status, row, day_class,
                   time_cell, cache, runs, pc>>

NextReport ==
    \/ \E employee \in EmployeeList(df_processed), d \in 0..MaxDay :
           GenerateEmployeeReport(employee, d)
    \/ \E d \in 0..MaxDay : GenerateConsolidatedReport(d)

SpecReport == InitReport /\ [][NextReport]_vars

-----------------------------------------------------------------------------
(* Properties of the rule engine (SpecRule, SpecLadder) *)

\* minutes since midnight of the clock time h:m
Clock(h, m) == h * 60 + m

IsMinuteTime(t) == t # None /\ Secs(t) % 60 = 0

MinuteOf(t) == Secs(t) \div 60

\* C1: calculate_late_status agrees with the four-step reference on no time
\* and on every minute of the day: no time gives (0, 'Missing IN Time', 0);
\* 10:16..13:30 gives (0, 'Half Day Leave (Morning IN)', 1); a time up to
\* 09:15 gives (0, 'On Time', 0); any other time gives n = ceil((t - 09:15) / 15),
\* the label 'n x 15 Min Late' and no half-day flag, whatever the date.
C1_LateStatusFollowsReference ==
    late_status # <<>> =>
        /\ time_val = None => late_status = <<0, <<0, "Missing IN Time">>, 0>>
        /\ IsMinuteTime(time_val) =>
             LET m == MinuteOf(time_val)
             IN  /\ (m >= Clock(10, 16) /\ m <= Clock(13, 30)) =>
                        late_status = <<0, <<0, "Half Day Leave (Morning IN)">>, 1>>
                 /\ m <= Clock(9, 15) => late_status = <<0, <<0, "On Time">>, 0>>
                 /\ (m > Clock(9, 15) /\ ~(m >= Clock(10, 16) /\ m <= Clock(13, 30))) =>
                        \E n \in 1..96 :
                            /\ 15 * (n - 1) < m - Clock(9, 15)
                            /\ m - Clock(9, 15) <= 15 * n
                            /\ late_status = <<n, <<n, " x 15 Min Late">>, 0>>
                 /\ m \in {Clock(9, 16), Clock(9, 30)} => late_status[1] = 1
                 /\ m = Clock(9, 31) => late_status[1] = 2

\* 09:31 has been classified as two late units
C1_Witness ==
    /\ time_val = <<Clock(9, 31) * 60>>
    /\ late_status = <<2, <<2, " x 15 Min Late">>, 0>>

\* C2: calculate_early_out_status partitions no time and every minute of the
\* day: no time gives (0, 'Missing OUT Time', 0); 17:45 or later gives
\* (0, 'On Time/Overtime', 0); 16:46..17:44 gives (1, '1 Hour Leave', 0);
\* 16:45 or earlier gives (0, 'Half Day Leave (Evening OUT)', 1).
C2_EarlyOutPartition ==
    early_status # <<>> =>
        /\ time_val = None => early_status = <<0, <<0, "Missing OUT Time">>, 0>>
        /\ IsMinuteTime(time_val) =>
             LET m == MinuteOf(time_val)
             IN  /\ m >= Clock(17, 45) => early_status = <<0, <<0, "On Time/Overtime">>, 0>>
                 /\ (m >= Clock(16, 46) /\ m <= Clock(17, 44)) =>
                        early_status = <<1, <<0, "1 Hour Leave">>, 0>>
                 /\ m <= Clock(16, 45) =>
                        early_status = <<0, <<0, "Half Day Leave (Evening OUT)">>, 1>>

\* the boundary 16:45 has been classified as an evening half day
C2_Witness ==
    /\ time_val = <<Clock(16, 45) * 60>>
    /\ early_status = <<0, <<0, "Half Day Leave (Evening OUT)">>, 1>>

\* C3: get_day_classification is a total first-match-wins ladder: both
\* half-day flags give the full-day label whatever the other fields; then the
\* morning flag, the evening flag, early_out_units = 1, late_units > 0, a
\* missing time, and else 'On Time'; the result is always one of these labels.
C3_PriorityLadder ==
    day_class # <<>> =>
        LET m == row.is_morning_half_day = 1
            e == row.is_evening_half_day = 1
            l == row.early_out_units = 1
            late == row.late_units > 0
            missing == row.time_in = None \/ row.time_out = None
        IN  /\ (m /\ e) => day_class = <<0, "FULL Day Leave (Morn + Even Half)">>
            /\ (m /\ ~e) => day_class = <<0, "Half Day Leave (Morning IN)">>
            /\ (~m /\ e) => day_class = <<0, "Half Day Leave (Evening OUT)">>
            /\ (~m /\ ~e /\ l) => day_class = <<0, "1 Hour Leave (Early OUT)">>
            /\ (~m /\ ~e /\ ~l /\ late) => day_class = <<row.late_units, " x 15 Min Late">>
            /\ (~m /\ ~e /\ ~l /\ ~late /\ missing) => day_class = <<0, "Incomplete Record">>
            /\ (~m /\ ~e /\ ~l /\ ~late /\ ~missing) => day_class = <<0, "On Time">>
            /\ day_class \in
                 {<<0, "FULL Day Leave (Morn + Even Half)">>,
                  <<0, "Half Day Leave (Morning IN)">>,
                  <<0, "Half Day Leave (Evening OUT)">>,
                  <<0, "1 Hour Leave (Early OUT)">>,
                  <<0, "Incomplete Record">>,
                  <<0, "On Time">>}
                 \cup {<<n, " x 15 Min Late">> : n \in 1..row.late_units}

\* a row with both flags, late units and an early out has been classified
C3_Witness ==
    /\ day_class = <<0, "FULL Day Leave (Morn + Even Half)">>
    /\ row.late_units > 0
    /\ row.early_out_units = 1

\* C9: in a classified record the morning half-day flag never comes with late
\* units and early_out_units = 1 never comes with the evening half-day flag;
\* late_units >= 0 and the other three fields are 0 or 1.
C9_FlagsExclusive ==
    /\ late_status # <<>> =>
         /\ ~(late_status[3] = 1 /\ late_status[1] > 0)
         /\ late_status[1] >= 0
         /\ late_status[3] \in {0, 1}
    /\ early_status # <<>> =>
         /\ ~(early_status[1] = 1 /\ early_status[3] = 1)
         /\ early_status[1] \in {0, 1}
         /\ early_status[3] \in {0, 1}

\* 13:30, the last minute of the morning half-day window and an evening half
\* day as a time out, has been classified both ways
C9_Witness ==
    /\ late_status # <<>>
    /\ early_status # <<>>
    /\ late_status[3] = 1
    /\ time_val = <<Clock(13, 30) * 60>>
    /\ early_status[3] = 1

-----------------------------------------------------------------------------
(* Properties of the parser (Spec) *)

Parsed == pc = "parsed"

Rows(g) == 0..(Len(g) - 1)

\* the cell of row r, column c, as uploaded
Cell(r, c) == df_raw[r + 1][c + 1]

\* the rows tagged 'Days' once the tag is stripped, and those tagged exactly so
StrippedDaysRows == {r \in Rows(df_raw) : Strip(Cell(r, 0)) = <<"D", "a", "y", "s">>}

ExactDaysRows == {r \in Rows(df_raw) : Cell(r, 0) = <<"D", "a", "y", "s">>}

Last(S) == CHOOSE x \in S : \A y \in S : y <= x

\* the part of a name cell after its last ':', trimmed
TrailingSegment(cell) ==
    LET colons == {i \in 1..Len(cell) : cell[i] = ":"}
        from == IF colons = {} THEN 1 ELSE Last(colons) + 1
    IN  Strip(SubSeq(cell, from, Len(cell)))

\* the number of cells of row r from column 2 on
DayCells(r) == Len(df_raw[r + 1]) - 2

\* The alignment of one extracted day-slot, with the status and the Days tag
\* read as the flags say: stripped or exactly as uploaded.
Aligned(rec, stripped) ==
    LET r == rec.anchor
        i == rec.slot
        days == IF stripped THEN StrippedDaysRows ELSE ExactDaysRows
    IN  /\ r \in Rows(df_raw) /\ r + 3 \in Rows(df_raw)
        /\ days # {}
        /\ rec.Day = Strip(Cell(Last(days), 2 + i))
        /\ rec.Status = (IF stripped THEN Strip(Cell(r + 1, 2 + i)) ELSE Cell(r + 1, 2 + i))
        /\ rec.Time_In = ToTimeSafe(Cell(r + 2, 2 + i))
        /\ rec.Time_Out = ToTimeSafe(Cell(r + 3, 2 + i))
        /\ rec.Employee_Name = TrailingSegment(Cell(r, 3))
        /\ i >= 0
        /\ i < DayCells(Last(days)) /\ i < DayCells(r + 1)
        /\ i < DayCells(r + 2) /\ i < DayCells(r + 3)

\* C4 as stated: every extracted day-slot is column-aligned, its status being
\* the cell (r+1, 2+i) and the Days row the last row whose column 0 is exactly
\* 'Days'.
C4_AlignedExactCells ==
    Parsed => \A k \in 1..Len(df_structured) : Aligned(df_structured[k], FALSE)

\* C4 (amended): every extracted day-slot is column-aligned: from anchor row r
\* and slot i, below the least length of the four sequences, it has the
\* stripped day label (Days row, 2+i), the Days row being the last row whose
\* stripped column 0 is 'Days'; the stripped status cell (r+1, 2+i);
\* to_time_safe of the cells (r+2, 2+i) and (r+3, 2+i); and the trimmed
\* trailing ':'-segment of the cell (r, 3).
C4_AlignedStrippedCells ==
    Parsed => \A k \in 1..Len(df_structured) : Aligned(df_structured[k], TRUE)

\* a grid with two header rows has given a last day-slot whose status cell is
\* padded
C4_Witness ==
    /\ Parsed
    /\ Cardinality(StrippedDaysRows) = 2
    /\ \E k \in 1..Len(df_structured) :
           LET rec == df_structured[k]
           IN  /\ rec.slot = DayCells(rec.anchor + 1) - 1
               /\ rec.Status # Cell(rec.anchor + 1, 2 + rec.slot)
               /\ rec.Time_Out # None

AnchorRows == {r \in Rows(df_raw) : StartsWith(Strip(Cell(r, 0)), Str_Employee)}

\* an anchor the loop skips: a blank name cell, or rows r+1..r+3 past the end
Skipped(r) == Strip(Cell(r, 3)) = <<>> \/ r + 3 > Len(df_raw) - 1

SlotsOf(r) == {k \in 1..Len(df_structured) : df_structured[k].anchor = r}

\* C5: in a grid with a Days row, an anchor row whose name cell is empty or
\* whose rows r+1..r+3 run past the end of the grid contributes no day-slot and
\* no error is reported, and every other anchor's block is extracted in full.
C5_SkippedBlocksAreSilent ==
    (Parsed /\ StrippedDaysRows # {}) =>
        /\ parse_outcome = "ok"
        /\ \A r \in AnchorRows :
             IF Skipped(r) THEN SlotsOf(r) = {}
             ELSE {df_structured[k].slot : k \in SlotsOf(r)} = 0..(DayCells(r) - 1)
        /\ \A k \in 1..Len(df_structured) : df_structured[k].anchor \in AnchorRows

\* one Days row and two anchors, the first with an empty name cell: the
\* day-slots come from the other block alone
C5_Witness ==
    /\ Parsed
    /\ Cardinality(StrippedDaysRows) = 1
    /\ Cardinality(AnchorRows) = 2
    /\ \E r1, r2 \in AnchorRows :
           /\ r1 < r2
           /\ Cell(r1, 3) = <<>>
           /\ SlotsOf(r1) = {}
           /\ SlotsOf(r2) # {}
           /\ parse_outcome = "ok"

\* C6: a grid with no row tagged 'Days' gives an empty result as a normal
\* outcome: the exception handler is not entered and no parse error is
\* reported.
C6_NoDaysRowIsNoError ==
    (Parsed /\ StrippedDaysRows = {}) => (parse_outcome = "ok" /\ df_processed = <<>>)

\* the day-slot a returned record was cut from
SlotOf(rec) == df_structured[rec.idx + 1]

CameFrom(rec) ==
    /\ rec.idx + 1 \in 1..Len(df_structured)
    /\ rec.Employee_Name = SlotOf(rec).Employee_Name
    /\ rec.Day = SlotOf(rec).Day
    /\ rec.Time_In = SlotOf(rec).Time_In
    /\ rec.Time_Out = SlotOf(rec).Time_Out

HasTime(rec) ==
    \/ ToTimeSafe(Cell(SlotOf(rec).anchor + 2, 2 + SlotOf(rec).slot)) # None
    \/ ToTimeSafe(Cell(SlotOf(rec).anchor + 3, 2 + SlotOf(rec).slot)) # None

\* C7 as stated: every returned record came from a day-slot whose status cell
\* is exactly 'P' and which has a time in or a time out.
C7_ReturnedExactlyP ==
    Parsed => \A k \in 1..Len(df_processed) :
        LET rec == df_processed[k]
        IN  /\ CameFrom(rec)
            /\ Cell(SlotOf(rec).anchor + 1, 2 + SlotOf(rec).slot) = <<"P">>
            /\ HasTime(rec)

\* C7 (amended): every returned record came from a day-slot whose status cell,
\* stripped, is 'P' and which has a time in or a time out.
C7_ReturnedStrippedP ==
    Parsed => \A k \in 1..Len(df_processed) :
        LET rec == df_processed[k]
        IN  /\ CameFrom(rec)
            /\ Strip(Cell(SlotOf(rec).anchor + 1, 2 + SlotOf(rec).slot)) = <<"P">>
            /\ HasTime(rec)
            /\ (rec.Time_In # None \/ rec.Time_Out # None)

\* a slot with another status and a slot of status 'P' with no time were
\* extracted and dropped, and a slot with a padded 'P' was returned
C7_Witness ==
    /\ Parsed
    /\ \E a, b \in 1..Len(df_structured) :
           /\ df_structured[a].Status = <<"A">> /\ df_structured[a].Time_In # None
           /\ df_structured[b].Status = <<"P">>
           /\ df_structured[b].Time_In = None /\ df_structured[b].Time_Out = None
           /\ \A k \in 1..Len(df_processed) : df_processed[k].idx \notin {a - 1, b - 1}
    /\ \E k \in 1..Len(df_processed) :
           Cell(SlotOf(df_processed[k]).anchor + 1, 2 + SlotOf(df_processed[k]).slot) = <<"P", " ">>

\* C8: every returned record has a non-empty employee name.
C8_NamesNonEmpty ==
    Parsed => \A k \in 1..Len(df_processed) : df_processed[k].Employee_Name # <<>>

-----------------------------------------------------------------------------
(* Properties of the per-employee report (SpecReport) *)

Reported == report # <<>>

\* the rows of the frame that belong to the reported employee
OwnRows == {i \in 1..Len(df_processed) : df_processed[i].Employee_Name = report_employee}

LateUnitsOf(i) == CalculateLateStatus(df_processed[i].Time_In, today)[1]

\* the late units of the rows I, added up
RECURSIVE SumLateUnits(_)
SumLateUnits(I) ==
    IF I = {} THEN 0
    ELSE LET i == CHOOSE x \in I : TRUE IN LateUnitsOf(i) + SumLateUnits(I \ {i})

MorningFlagOf(i) == CalculateLateStatus(df_processed[i].Time_In, today)[3]

EarlyOutUnitsOf(i) == CalculateEarlyOutStatus(df_processed[i].Time_Out, today)[1]

EveningFlagOf(i) == CalculateEarlyOutStatus(df_processed[i].Time_Out, today)[3]

\* C10: for an employee with a record, generate_employee_report's totals are
\* taken over exactly that employee's records: the late units are summed, the
\* records with early_out_units = 1 counted, and the half-day incidents are
\* the morning flags plus the evening flags, two for a record with both.
C10_TotalsOverOwnRecords ==
    Reported =>
        /\ report.found
        /\ report.summary =
             << <<"Total 15 Min Late Units", SumLateUnits(OwnRows)>>,
                <<"Total Half Day Incidents",
                  Cardinality({i \in OwnRows : MorningFlagOf(i) = 1})
                  + Cardinality({i \in OwnRows : EveningFlagOf(i) = 1})>>,
                <<"Total 1 Hour Leaves", Cardinality({i \in OwnRows : EarlyOutUnitsOf(i) = 1})>> >>
        /\ Len(report.details) = Cardinality(OwnRows)

\* the employee has one record with both half-day flags, counted twice, beside
\* another employee's record
C10_Witness ==
    /\ Reported
    /\ Cardinality(OwnRows) = 1
    /\ Len(df_processed) = 2
    /\ \E i \in OwnRows : MorningFlagOf(i) = 1 /\ EveningFlagOf(i) = 1
    /\ report.summary[2][2] = 2

-----------------------------------------------------------------------------
(* One OutTime cell, parsed by to_time_safe and then classified *)

InitCell ==
    /\ time_cell \in OutCells
    /\ today \in 0..MaxDay
    /\ time_val = None
    /\ late_status = <<>>
    /\ early_status = <<>>
    /\ df_raw = <<>>
    /\ df_structured = <<>>
    /\ df_processed = <<>>
    /\ parse_outcome = "none"
    /\ report = <<>>
    /\ report_employee = <<>>
    /\ row = <<>>
    /\ day_class = <<>>
    /\ consolidated = <<>>
    /\ cache = {}
    /\ runs = <<>>
    /\ pc = "cell"

\* temp_df['Time Out'] = temp_df['OutTime_Raw'].apply(to_time_safe)
ParseTimeOut ==
    /\ pc = "cell"
    /\ time_val' = ToTimeSafe(time_cell)
    /\ pc' = "time"
    /\ UNCHANGED <<df_raw, df_structured, df_processed, parse_outcome, today, report,
                   report_employee, late_status, early_status, row, day_class,
                   consolidated, time_cell, cache, runs>>

\* calculate_early_out_status(x) if pd.notna(x) else (0, 'Missing OUT Time', 0)
ClassifyTimeOut ==
    /\ pc = "time"
    /\ early_status' = IF time_val # None THEN CalculateEarlyOutStatus(time_val, today)
                       ELSE <<0, Lit("Missing OUT Time"), 0>>
    /\ pc' = "classified"
    /\ UNCHANGED <<df_raw, df_structured, df_processed, parse_outcome, today, report,
                   report_employee, time_val, late_status, row, day_class,
                   consolidated, time_cell, cache, runs>>

NextCell == ParseTimeOut \/ ClassifyTimeOut

SpecCell == InitCell /\ [][NextCell]_vars

-----------------------------------------------------------------------------
(* A session of uploads, with the memo of st.cache_data *)

\* the grids uploaded in a session: two of one shape, one of two employees
\* under a header that needs stripping, and one with no header row, which
\* fails to parse
UploadGrids ==
    {<<DaysRow(1)>> \o Block(Name_Al, 0),
     <<DaysRow(1)>> \o Block(Name_Bo, 1),
     <<DaysRow(2)>> \o Block(Name_Bo, 2) \o Block(Name_Al, 1),
     Block(Name_Al, 0)}

\* The memo keyed by the shape of the frame.
CacheKey_Shape(g) == <<Len(g), Len(g[1])>>

\* st.cache_data keys the memo by the hash of the argument's content
CacheKey(g) == g

\* what one run of app() shows for a parse result: the records and, unless
\* they are empty, the report of each employee in sorted order, the report
\* of the k-th employee computed on the day ds[k]
RunTables(res, ds) ==
    LET employee_list == SortedStrings(EmployeeList(res.processed))
    IN  [outcome |-> res.outcome,
         records |-> res.processed,
         reports |-> [k \in 1..Len(employee_list) |->
                        LET rep == GenerateEmployeeReportResult(res.processed,
                                                                employee_list[k], ds[k])
                        IN  [employee |-> employee_list[k],
                             summary |-> rep.summary,
                             details |-> rep.details]]]

InitUploads == Init

UploadNext(g) == Len(runs) < MaxUploads /\ Upload(g)

\* restructure_attendance_data behind @st.cache_data: a memoized result is
\* returned for a key seen before, else the function runs and its result is
\* memoized
RestructureCached ==
    /\ pc = "uploaded"
    /\ LET hits == {e \in cache : e.key = CacheKey(df_raw)}
           res == IF hits # {} THEN (CHOOSE e \in hits : TRUE).value
                  ELSE RestructureAttendanceData(df_raw)
       IN  /\ df_structured' = res.structured
           /\ df_processed' = res.processed
           /\ parse_outcome' = res.outcome
           /\ cache' = IF hits # {} THEN cache
                       ELSE cache \cup {[key |-> CacheKey(df_raw), value |-> res]}
    /\ pc' = "parsed"
    /\ UNCHANGED <<df_raw, today, report, report_employee, time_val, late_status,
                   early_status, row, day_class, consolidated, time_cell, runs>>

\* app(): the loop over the employees, each report computed on the day
\* ds[k]; the script run ends and the next upload can follow
ShowReports(ds) ==
    /\ pc = "parsed"
    /\ LET res == [outcome |-> parse_outcome, structured |-> df_structured,
                   processed |-> df_processed]
       IN  runs' = Append(runs, [grid |-> df_raw, tables |-> RunTables(res, ds)])
    /\ today' = IF Len(ds) = 0 THEN today ELSE ds[Len(ds)]
    /\ pc' = "idle"
    /\ UNCHANGED <<df_raw, df_structured, df_processed, parse_outcome, report,
                   report_employee, time_val, late_status, early_status, row, day_class,
                   consolidated, time_cell, cache>>

NextUploads ==
    \/ \E g \in UploadGrids : UploadNext(g)
    \/ RestructureCached
    \/ \E ds \in [1..Cardinality(EmployeeList(df_processed)) -> 0..MaxDay] : ShowReports(ds)

SpecUploads == InitUploads /\ [][NextUploads]_vars

-----------------------------------------------------------------------------
(* Properties of the consolidated report (SpecReport) *)

Consolidated == consolidated # <<>>

RowsNamed(name) == {i \in 1..Len(df_processed) : df_processed[i].Employee_Name = name}

HalfDayRows(name) == {i \in RowsNamed(name) : MorningFlagOf(i) = 1 \/ EveningFlagOf(i) = 1}

OneHourLeaveRows(name) ==
    {i \in RowsNamed(name) :
        MorningFlagOf(i) = 0 /\ EveningFlagOf(i) = 0 /\ EarlyOutUnitsOf(i) = 1}

\* C11: for a non-empty record set generate_consolidated_report gives exactly
\* one row per distinct employee name; its 'Half Day Incidents' counts each
\* record with a half-day flag once, its '1 Hour Leaves' counts the records
\* with no half-day flag and early_out_units = 1, so that no record is counted
\* as both, and its '15 Min Late Units' is the sum of late_units.
C11_ConsolidatedRows ==
    Consolidated =>
        /\ {consolidated[k].Employee_Name : k \in 1..Len(consolidated)}
             = {df_processed[i].Employee_Name : i \in 1..Len(df_processed)}
        /\ \A k, j \in 1..Len(consolidated) :
             consolidated[k].Employee_Name = consolidated[j].Employee_Name => k = j
        /\ \A k \in 1..Len(consolidated) :
             LET name == consolidated[k].Employee_Name
             IN  /\ consolidated[k].Half_Day_Incidents = Cardinality(HalfDayRows(name))
                 /\ consolidated[k].One_Hour_Leaves = Cardinality(OneHourLeaveRows(name))
                 /\ consolidated[k].Late_Units_15_Min = SumLateUnits(RowsNamed(name))
                 /\ consolidated[k].Half_Day_Incidents + consolidated[k].One_Hour_Leaves
                      <= Cardinality(RowsNamed(name))

\* two employees; one has a single record, a morning half day that ends in
\* the one-hour-leave window, counted as a half day and not as a leave
C11_Witness ==
    /\ Consolidated
    /\ Len(consolidated) = 2
    /\ \E k \in 1..Len(consolidated) :
           /\ Cardinality(RowsNamed(consolidated[k].Employee_Name)) = 1
           /\ \E i \in RowsNamed(consolidated[k].Employee_Name) :
                  MorningFlagOf(i) = 1 /\ EarlyOutUnitsOf(i) = 1
           /\ consolidated[k].Half_Day_Incidents = 1
           /\ consolidated[k].One_Hour_Leaves = 0

-----------------------------------------------------------------------------
(* Late units (SpecRule) *)

\* C14: calculate_late_status returns late_units > 0 only for a time_in after
\* SHIFT_START and before the half-day window (before 10:16); for every other
\* time_in, any time after 13:30 included, late_units is 0; so late_units is
\* never more than 4.
C14_LateUnitsOnlyBeforeHalfDayWindow ==
    late_status # <<>> =>
        /\ late_status[1] > 0 =>
             /\ time_val # None
             /\ Secs(time_val) > Secs(SHIFT_START)
             /\ Secs(time_val) < Secs(HALF_DAY_START_TIME_NEW)
        /\ late_status[1] <= 4

-----------------------------------------------------------------------------
(* The early-out label of a parsed cell (SpecCell) *)

Classified == pc = "classified"

NamedEarlyOutLabels ==
    {Lit("On Time/Overtime"), Lit("1 Hour Leave"), Lit("Half Day Leave (Evening OUT)")}

\* the stripped cell reads H:M:S, a time with seconds
HasSeconds(s) ==
    LET f == Split(s, ":")
    IN  Len(f) = 3 /\ IsField(f[1], 23) /\ IsField(f[2], 59) /\ IsField(f[3], 59)

\* the stripped cell is a time strictly between 16:45:00 and 16:46:00 or
\* strictly between 17:44:00 and 17:45:00
InEveningGap(s) ==
    /\ HasSeconds(s)
    /\ LET f == Split(s, ":")
       IN  /\ \/ Num(f[1]) = 16 /\ Num(f[2]) = 45
              \/ Num(f[1]) = 17 /\ Num(f[2]) = 44
           /\ Num(f[3]) >= 1

\* C13 as claimed: for every time of day that to_time_safe returns and passes
\* on as time_out, calculate_early_out_status returns 'On Time/Overtime',
\* '1 Hour Leave' or 'Half Day Leave (Evening OUT)', never 'Other Early Out'.
C13_OtherEarlyOutUnreachable ==
    (Classified /\ time_val # None) => early_status[2] \in NamedEarlyOutLabels

\* C13: for every time of day that to_time_safe returns from a cell without
\* seconds (H:M), calculate_early_out_status returns one of the three named
\* labels; 'Other Early Out' is returned exactly for the cells with seconds
\* that lie strictly between 16:45:00 and 16:46:00 or strictly between
\* 17:44:00 and 17:45:00, which to_time_safe returns through its fallback
\* parse.
C13_OtherEarlyOutOnlyInGap ==
    Classified =>
        /\ (early_status[2] = Lit("Other Early Out")) <=> InEveningGap(Strip(time_cell))
        /\ (time_val # None /\ ~InEveningGap(Strip(time_cell)))
             => early_status[2] \in NamedEarlyOutLabels
        /\ (time_val # None /\ MatchesHM(Strip(time_cell)))
             => early_status[2] \in NamedEarlyOutLabels

\* the cell 16:45:30 is parsed to a time and classified 'Other Early Out'
C13_Witness ==
    /\ Classified
    /\ time_cell = ClockHMS(16, 45, 30)
    /\ time_val = TimeS(16, 45, 30)
    /\ early_status = <<0, Lit("Other Early Out"), 0>>

-----------------------------------------------------------------------------
(* Summary against details in generate_employee_report (SpecReport) *)

DetailRows == 1..Len(report.details)

\* the n of a detail row classified 'n x 15 Min Late', 0 for any other row
LabelledLateUnits(i) ==
    IF report.details[i].Day_Classification[2] = " x 15 Min Late"
    THEN report.details[i].Day_Classification[1]
    ELSE 0

RECURSIVE SumLabelledLateUnits(_)
SumLabelledLateUnits(I) ==
    IF I = {} THEN 0
    ELSE LET i == CHOOSE x \in I : TRUE
         IN  LabelledLateUnits(i) + SumLabelledLateUnits(I \ {i})

\* C15: in the output of generate_employee_report the summary and the details
\* agree: 'Total 1 Hour Leaves' is the number of detail rows classified
\* '1 Hour Leave (Early OUT)', and 'Total 15 Min Late Units' is the sum of n
\* over the detail rows classified 'n x 15 Min Late'.
C15_SummaryAgreesWithDetails ==
    Reported =>
        /\ report.summary[3][2] =
             Cardinality({i \in DetailRows :
                 report.details[i].Day_Classification = Lit("1 Hour Leave (Early OUT)")})
        /\ report.summary[1][2] = SumLabelledLateUnits(DetailRows)

-----------------------------------------------------------------------------
(* Runs on equal grids (SpecUploads) *)

\* the tables of a first run on grid g, on day 0, with nothing memoized
FreshTables(g) ==
    LET res == RestructureAttendanceData(g)
    IN  RunTables(res, [k \in 1..Cardinality(EmployeeList(res.processed)) |-> 0])

=============================================================================
